---- MODULE Spec2Model ----
(***************************************************************************)
(* A model of the light CORS proxy of src/app.py: target resolution, the   *)
(* host allowlist, the outbound header translation, the upstream call on   *)
(* the shared requests.Session, the relayed response and the CORS headers. *)
(*                                                                         *)
(* Text that the code parses (URLs, paths, query strings) is a sequence of *)
(* one-character strings, so that unquote, urlparse, endswith and strip    *)
(* are computed character by character.  Header values and bodies, which   *)
(* the code only copies, are opaque strings.                               *)
(***************************************************************************)
EXTENDS Integers, Sequences, FiniteSets, TLC

VARIABLES
    FORWARD_AUTH,         \* app.py:29  flag, fixed at start-up
    PROXIES,              \* app.py:26  TRUE iff a static proxy is configured
    DEFAULT_OUT_HEADERS,  \* app.py:33  the shared default header dict
    cookies,              \* app.py:68  session.cookies, the shared jar
    pc,                   \* per worker: "idle", "upstream" or "done"
    request,              \* per worker: the inbound request
    target,               \* per worker: the resolved target
    out_headers,          \* per worker: the headers= argument of session.request
    auth_fwd,             \* per worker: the local of app.py:183, "unbound" or "true"
    upstream,             \* per worker: what session.request did
    resp,                 \* per worker: the response sent to the caller
    qs,                   \* per worker: the local qs of app.py:153
    calls,                \* per worker: upstream attempts made for the current request
    contacted,            \* per worker: URLs the session requested for it
    served,               \* requests accepted so far
    probe,                \* input of a pure-function run
    verdict               \* output of a pure-function run

vars == <<FORWARD_AUTH, PROXIES, DEFAULT_OUT_HEADERS, cookies, pc, request,
          target, qs, out_headers, auth_fwd, upstream, resp, calls, contacted,
          served, probe, verdict>>

----------------------------------------------------------------------------
(* Bounds of the model.                                                    *)

\* requests accepted in one run
MaxServed == 2
\* redirects one upstream call may follow
MaxRedirects == 1
\* atoms glued in front of a probed host name
MaxPrefix == 1
\* blanks on each side of the value of the query parameter u
MaxPad == 1

----------------------------------------------------------------------------
(* Text.                                                                   *)

Min(S) == CHOOSE x \in S : \A y \in S : x <= y

\* str.find(c): the first index of c in s at or after from, 0 when absent
Find(s, c, from) ==
    LET I == {i \in from..Len(s) : s[i] = c}
    IN  IF I = {} THEN 0 ELSE Min(I)

\* the first index at or after from of any character of C, 0 when absent
FindAny(s, C, from) ==
    LET I == {i \in from..Len(s) : s[i] \in C}
    IN  IF I = {} THEN 0 ELSE Min(I)

Contains(s, c) == \E i \in 1..Len(s) : s[i] = c

UpperChars == <<"A","B","C","D","E","F","G","H","I","J","K","L","M",
                "N","O","P","Q","R","S","T","U","V","W","X","Y","Z">>
LowerChars == <<"a","b","c","d","e","f","g","h","i","j","k","l","m",
                "n","o","p","q","r","s","t","u","v","w","x","y","z">>
Digits == {"0","1","2","3","4","5","6","7","8","9"}

LowerChar(c) ==
    IF \E i \in 1..26 : UpperChars[i] = c
    THEN LowerChars[CHOOSE i \in 1..26 : UpperChars[i] = c]
    ELSE c

\* str.lower()
Lower(s) == [i \in 1..Len(s) |-> LowerChar(s[i])]

Letters == {UpperChars[i] : i \in 1..26} \cup {LowerChars[i] : i \in 1..26}

\* str.endswith(suf)
EndsWith(s, suf) ==
    /\ Len(s) >= Len(suf)
    /\ SubSeq(s, Len(s) - Len(suf) + 1, Len(s)) = suf

Whitespace == {" "}

\* str.strip()
RECURSIVE LStrip(_)
LStrip(s) == IF s # <<>> /\ Head(s) \in Whitespace THEN LStrip(Tail(s)) ELSE s
RECURSIVE RStrip(_)
RStrip(s) ==
    IF s # <<>> /\ s[Len(s)] \in Whitespace
    THEN RStrip(SubSeq(s, 1, Len(s) - 1)) ELSE s
Strip(s) == RStrip(LStrip(s))

----------------------------------------------------------------------------
(* Configuration, app.py:15-51.                                            *)

S_http  == <<"h","t","t","p">>
S_https == <<"h","t","t","p","s">>

ALLOWED_EXACT ==
    { <<"a","p","i",".","m","e","r","c","a","d","o","l","i","b","r","e",".","c","o","m">> }
ALLOWED_SUFFIXES ==
    { <<".","m","e","r","c","a","d","o","l","i","v","r","e",".","c","o","m",".","b","r">>,
      <<".","m","e","r","c","a","d","o","l","i","b","r","e",".","c","o","m">> }

----------------------------------------------------------------------------
(* urllib.parse.urlparse as is_allowed uses it: the scheme, the netloc and *)
(* the hostname property.                                                  *)

SchemeChars == Letters \cup Digits \cup {"+", "-", "."}

\* [ok, scheme, netloc]; ok = FALSE stands for the ValueError urlsplit raises
urlparse(url) ==
    LET i == Find(url, ":", 1)
        hasScheme == /\ i > 1
                     /\ url[1] \in Letters
                     /\ \A k \in 1..(i - 1) : url[k] \in SchemeChars
        scheme == IF hasScheme THEN Lower(SubSeq(url, 1, i - 1)) ELSE <<>>
        rest   == IF hasScheme THEN SubSeq(url, i + 1, Len(url)) ELSE url
        hasNetloc == Len(rest) >= 2 /\ rest[1] = "/" /\ rest[2] = "/"
        j == FindAny(rest, {"/", "?", "#"}, 3)
        netloc == IF ~hasNetloc THEN <<>>
                  ELSE IF j = 0 THEN SubSeq(rest, 3, Len(rest))
                  ELSE SubSeq(rest, 3, j - 1)
        badBrackets == Contains(netloc, "[") # Contains(netloc, "]")
    IN  [ok |-> ~badBrackets, scheme |-> scheme, netloc |-> netloc]

\* the last index of c in s, 0 when absent
RFind(s, c) ==
    LET I == {i \in 1..Len(s) : s[i] = c}
    IN  IF I = {} THEN 0 ELSE CHOOSE x \in I : \A y \in I : y <= x

\* SplitResult.hostname: after the last "@", before the port, lowercased
hostname(netloc) ==
    LET at == RFind(netloc, "@")
        hostinfo == SubSeq(netloc, at + 1, Len(netloc))
        ob == Find(hostinfo, "[", 1)
        bracketed == SubSeq(hostinfo, ob + 1, Len(hostinfo))
        cb == Find(bracketed, "]", 1)
        colon == Find(hostinfo, ":", 1)
        h == IF ob > 0
             THEN (IF cb = 0 THEN bracketed ELSE SubSeq(bracketed, 1, cb - 1))
             ELSE (IF colon = 0 THEN hostinfo ELSE SubSeq(hostinfo, 1, colon - 1))
    IN  Lower(h)

\* app.py:78 host.endswith(suf)
suffix_match_anywhere(host, suf) ==
    \E k \in 0..(Len(host) - Len(suf)) : SubSeq(host, k + 1, k + Len(suf)) = suf
suffix_match(host, suf) == EndsWith(host, suf)

\* app.py:72-80
is_allowed(t) ==
    LET u == urlparse(t)
    IN  IF ~u.ok THEN FALSE
        ELSE IF u.scheme \notin {S_http, S_https} THEN FALSE
        ELSE LET host == Lower(hostname(u.netloc))
             IN  \/ host \in ALLOWED_EXACT
                 \/ \E suf \in ALLOWED_SUFFIXES : suffix_match(host, suf)

----------------------------------------------------------------------------
(* Target resolution, app.py:152-161.                                      *)

HexDigits == Digits \cup {"a","b","c","d","e","f","A","B","C","D","E","F"}

\* The byte a percent-escape stands for; the escapes of the modelled inputs are
\* all in this table ("~" marks one that is not).
PctByte(h1, h2) ==
    LET p == <<LowerChar(h1), LowerChar(h2)>>
    IN  CASE p = <<"3","a">> -> ":"
          [] p = <<"2","f">> -> "/"
          [] p = <<"3","f">> -> "?"
          [] p = <<"3","d">> -> "="
          [] p = <<"2","6">> -> "&"
          [] p = <<"2","0">> -> " "
          [] p = <<"2","5">> -> "%"
          [] p = <<"2","b">> -> "+"
          [] OTHER -> "~"

\* urllib.parse.unquote: every %XX becomes its byte, anything else is kept
RECURSIVE unquote(_)
unquote(s) ==
    IF s = <<>> THEN <<>>
    ELSE IF /\ s[1] = "%" /\ Len(s) >= 3
            /\ s[2] \in HexDigits /\ s[3] \in HexDigits
         THEN <<PctByte(s[2], s[3])>> \o unquote(SubSeq(s, 4, Len(s)))
         ELSE <<s[1]>> \o unquote(Tail(s))

\* a form value: "+" is a blank, then unquote
unquote_plus(s) == unquote([i \in 1..Len(s) |-> IF s[i] = "+" THEN " " ELSE s[i]])

\* s split at every c
RECURSIVE Split(_, _)
Split(s, c) ==
    LET i == Find(s, c, 1)
    IN  IF i = 0 THEN <<s>>
        ELSE <<SubSeq(s, 1, i - 1)>> \o Split(SubSeq(s, i + 1, Len(s)), c)

\* one "name=value" field of a query string as <<name, value>>, decoded
QueryField(f) ==
    LET i == Find(f, "=", 1)
    IN  IF i = 0 THEN <<unquote_plus(f), <<>>>>
        ELSE <<unquote_plus(SubSeq(f, 1, i - 1)),
               unquote_plus(SubSeq(f, i + 1, Len(f)))>>

\* request.args.get(key, default): the first field named key
args_get(query_string, key, default) ==
    LET fields == Split(query_string, "&")
        I == {i \in 1..Len(fields) : fields[i] # <<>> /\ QueryField(fields[i])[1] = key}
    IN  IF I = {} THEN default ELSE QueryField(fields[Min(I)])[2]

\* app.py:159 the character that joins the decoded target and the query
query_joiner_always_question(t) == "?"
query_joiner(t) == IF Contains(t, "?") THEN "&" ELSE "?"

\* app.py:153-161: the target and the local qs
resolve_target(raw, query_string) ==
    IF raw # <<>>
    THEN LET t == unquote(raw)
         IN  [qs |-> query_string,
              target |-> IF query_string # <<>>
                         THEN t \o <<query_joiner(t)>> \o query_string
                         ELSE t]
    ELSE [qs |-> <<>>,
          target |-> Strip(args_get(query_string, <<"u">>, <<>>))]

----------------------------------------------------------------------------
(* Headers.  A request's and an upstream response's headers map the names  *)
(* as they were sent to their values; both are looked up ignoring case.    *)
(* The headers of a response under construction (werkzeug Headers, where   *)
(* h[k] = v replaces every line named k, ignoring case) map lowercased     *)
(* names to values.                                                        *)

EmptyMap == [n \in {} |-> ""]

LowerPairs ==
    { <<"Authorization", "authorization">>, <<"AUTHORIZATION", "authorization">>,
      <<"Accept", "accept">>, <<"Accept-Language", "accept-language">>,
      <<"User-Agent", "user-agent">>, <<"Range", "range">>,
      <<"If-None-Match", "if-none-match">>,
      <<"If-Modified-Since", "if-modified-since">>,
      <<"Cache-Control", "cache-control">>, <<"Pragma", "pragma">>,
      <<"Content-Type", "content-type">>, <<"Content-Length", "content-length">>,
      <<"Connection", "connection">>, <<"Cookie", "cookie">>,
      <<"X-Custom", "x-custom">>, <<"Keep-Alive", "keep-alive">>,
      <<"Transfer-Encoding", "transfer-encoding">>, <<"Upgrade", "upgrade">>,
      <<"Set-Cookie", "set-cookie">>, <<"ETag", "etag">>, <<"Vary", "vary">>,
      <<"VARY", "vary">>, <<"Location", "location">>,
      <<"Last-Modified", "last-modified">>, <<"Accept-Ranges", "accept-ranges">>,
      <<"Content-Range", "content-range">>, <<"X-Request-Id", "x-request-id">>,
      <<"Access-Control-Allow-Origin", "access-control-allow-origin">>,
      <<"X-Proxy-Static", "x-proxy-static">>, <<"X-Proxy-Auth", "x-proxy-auth">>,
      <<"Access-Control-Allow-Credentials", "access-control-allow-credentials">>,
      <<"Access-Control-Allow-Methods", "access-control-allow-methods">>,
      <<"Access-Control-Allow-Headers", "access-control-allow-headers">>,
      <<"Access-Control-Expose-Headers", "access-control-expose-headers">>,
      <<"Access-Control-Max-Age", "access-control-max-age">>,
      <<"Origin", "origin">> }

\* str.lower() of a header name
lower_name(n) ==
    IF \E p \in LowerPairs : p[1] = n
    THEN (CHOOSE p \in LowerPairs : p[1] = n)[2]
    ELSE n

\* request.headers.get(k): the value of the header named k ignoring case;
\* "" stands for None as well, the code only tests the value's truth
headers_get(h, k) ==
    LET N == {n \in DOMAIN h : lower_name(n) = lower_name(k)}
    IN  IF N = {} THEN "" ELSE h[CHOOSE n \in N : TRUE]

\* resp.headers[k] = v
header_set(h, k, v) ==
    [n \in DOMAIN h \cup {lower_name(k)} |-> IF n = lower_name(k) THEN v ELSE h[n]]

\* app.py:33-40
DefaultOutHeaders ==
    [k \in {"User-Agent", "Accept", "Accept-Language", "Connection"} |->
        CASE k = "User-Agent" -> "Mozilla/5.0"
          [] k = "Accept" -> "*/*"
          [] k = "Accept-Language" -> "pt-BR,pt;q=0.9,en-US;q=0.8,en;q=0.7"
          [] k = "Connection" -> "keep-alive"]

\* app.py:42-46
FORWARD_INBOUND ==
    {"Accept", "Accept-Language", "User-Agent", "Range", "If-None-Match",
     "If-Modified-Since", "Cache-Control", "Pragma", "Content-Type"}

\* app.py:48-51
HOP_BY_HOP ==
    {"connection", "keep-alive", "proxy-authenticate", "proxy-authorization",
     "te", "trailers", "transfer-encoding", "upgrade"}

\* app.py:213-214
RELAYED ==
    {"content-type", "cache-control", "etag", "last-modified", "content-range",
     "accept-ranges", "location", "vary", "content-length"}

\* app.py:176: the inbound names copied to the outbound call
forwardable(h) == FORWARD_INBOUND

\* app.py:179: whether Authorization is looked at
forward_auth_always(flag) == TRUE
forward_auth_enabled(flag) == flag

\* app.py:175-183: the outbound headers and the local auth_fwd
translate_headers(defaults, h, flag) ==
    LET fwd == {k \in forwardable(h) : headers_get(h, k) # ""}
        auth == forward_auth_enabled(flag) /\ headers_get(h, "Authorization") # ""
        names == DOMAIN defaults \cup fwd \cup (IF auth THEN {"Authorization"} ELSE {})
    IN  [out |-> [k \in names |->
                    IF k = "Authorization" /\ auth THEN headers_get(h, "Authorization")
                    ELSE IF k \in fwd THEN headers_get(h, k)
                    ELSE defaults[k]],
         auth_fwd |-> IF auth THEN "true" ELSE "unbound"]

----------------------------------------------------------------------------
(* Responses.                                                              *)

Absent == [present |-> FALSE, value |-> <<>>]
Present(v) == [present |-> TRUE, value |-> v]

\* flask.Response(body, status=...): the default mimetype is text/html
Response(body, status) ==
    [status |-> status, body |-> body, error |-> "",
     headers |-> [n \in {"content-type"} |-> "text/html; charset=utf-8"],
     x_proxy_final_url |-> Absent, x_proxy_fwd_query |-> Absent]

NoResponse ==
    [status |-> 0, body |-> "", error |-> "", headers |-> EmptyMap,
     x_proxy_final_url |-> Absent, x_proxy_fwd_query |-> Absent]

RECURSIVE SetAll(_, _)
SetAll(h, pairs) ==
    IF pairs = <<>> THEN h
    ELSE SetAll(header_set(h, pairs[1][1], pairs[1][2]), Tail(pairs))

\* app.py:85: origin or "*"
allow_origin(origin) == IF origin # "" THEN origin ELSE "*"

\* app.py:82-108; origin = "" stands for a request without Origin
add_cors(r, origin) ==
    [r EXCEPT !.headers = SetAll(@, <<
        <<"Access-Control-Allow-Origin", allow_origin(origin)>>,
        <<"Access-Control-Allow-Credentials", IF origin # "" THEN "true" ELSE "false">>,
        <<"Access-Control-Allow-Methods", "PUT, GET, POST, DELETE, OPTIONS">>,
        <<"Access-Control-Allow-Headers", "Content-Type, Authorization, ...">>,
        <<"Access-Control-Expose-Headers", "content-type,content-length,...">>,
        <<"Access-Control-Max-Age", "86400">>,
        <<"Vary", "Origin, Access-Control-Request-Headers, Access-Control-Request-Method">> >>)]

\* app.py:12 CORS(app, supports_credentials=True), the extension's hook on every
\* response, the 500 of an unhandled exception included: a request with an
\* Origin gets it echoed with credentials allowed; one without gets nothing,
\* the wildcard being withheld when credentials are supported.
after_request(r, origin) ==
    IF origin = "" THEN r
    ELSE [r EXCEPT !.headers = SetAll(@, <<
            <<"Access-Control-Allow-Origin", origin>>,
            <<"Access-Control-Allow-Credentials", "true">> >>)]

\* what Flask answers when a view raises: 500, through the same hook
InternalServerError(origin) ==
    after_request(Response("Internal Server Error", 500), origin)

\* app.py:120-122
health_response(origin) == after_request(Response("ok", 200), origin)

\* app.py:124-134
ping_response(origin) ==
    after_request(
        add_cors([Response("{ok, origin, path, qs}", 200) EXCEPT
                     !.headers = header_set(@, "Content-Type", "application/json")],
                 origin),
        origin)

\* app.py:137-141
opts_response(origin) == after_request(add_cors(Response("", 204), origin), origin)

\* app.py:164
usage_response(origin) ==
    after_request(add_cors(Response("OK - use /https://<url> ou ?u=<url>", 200), origin),
                  origin)

\* app.py:168
rejected_response(origin) ==
    after_request(add_cors(Response("Host nao permitido", 400), origin), origin)

\* app.py:196-202: the except branch; reading the local auth_fwd while it is
\* unbound raises UnboundLocalError out of the view
failure_response(authfwd, proxies, origin) ==
    IF authfwd = "unbound" THEN InternalServerError(origin)
    ELSE LET r0 == [Response("{error, detail}", 502) EXCEPT
                       !.error = "upstream_error",
                       !.headers = header_set(@, "Content-Type", "application/json")]
             r1 == IF proxies
                   THEN [r0 EXCEPT !.headers = header_set(@, "X-Proxy-Static", "masked")]
                   ELSE r0
             r2 == [r1 EXCEPT !.headers = header_set(@, "X-Proxy-Auth", "1")]
         IN  after_request(add_cors(r2, origin), origin)

\* app.py:206: the body relayed
relayed_body_always(method, content) == content
relayed_body(method, content) == IF method = "GET" THEN content ELSE ""

\* app.py:211-214: whether an upstream header is copied
is_relayed(lk) == lk \notin HOP_BY_HOP /\ lk \in RELAYED

\* app.py:209-215
RECURSIVE copy_headers(_, _, _)
copy_headers(h, up, todo) ==
    IF todo = {} THEN h
    ELSE LET k == CHOOSE k \in todo : TRUE
         IN  copy_headers(IF is_relayed(lower_name(k)) THEN header_set(h, k, up[k]) ELSE h,
                          up, todo \ {k})

\* app.py:205-224
success_response(req, q, r, proxies) ==
    LET r0 == Response(relayed_body(req.method, r.content), r.status_code)
        r1 == [r0 EXCEPT !.headers = copy_headers(@, r.headers, DOMAIN r.headers)]
        r2 == [r1 EXCEPT !.x_proxy_final_url = Present(r.url)]
        r3 == IF req.raw # <<>> THEN [r2 EXCEPT !.x_proxy_fwd_query = Present(q)] ELSE r2
        r4 == IF proxies
              THEN [r3 EXCEPT !.headers = header_set(@, "X-Proxy-Static", "masked")]
              ELSE r3
    IN  after_request(add_cors(r4, req.origin), req.origin)

\* app.py:163-168: what light_proxy does with the resolved target
proxy_decision_no_allowlist(t) == IF t = <<>> THEN "usage" ELSE "forward"
proxy_decision(t) ==
    IF t = <<>> THEN "usage"
    ELSE IF ~is_allowed(t) THEN "rejected"
    ELSE "forward"

\* app.py:57 Retry(total=0): the attempts the adapter adds after a failure
RETRY_TOTAL == 0

\* app.py:64: _NoCookiesPolicy.set_ok
set_ok_always(cookie) == TRUE
set_ok(cookie) == FALSE

\* the jar after a response: the cookies the policy lets the session store
store_cookies(jar, up) ==
    jar \cup {c \in {headers_get(up, "Set-Cookie")} : c # "" /\ set_ok(c)}

----------------------------------------------------------------------------
(* The requests and the upstream behaviours the model draws from.          *)

Workers == {1, 2}

Origins == {"", "https://app.example"}

H_none == EmptyMap
H_auth == [n \in {"Authorization"} |-> "Bearer tok"]
H_mixed ==
    [n \in {"AUTHORIZATION", "Cookie", "X-Custom", "Connection", "Range"} |->
        CASE n = "AUTHORIZATION" -> "Bearer tok"
          [] n = "Cookie" -> "sid=1"
          [] n = "X-Custom" -> "custom"
          [] n = "Connection" -> "close"
          [] n = "Range" -> "bytes=0-9"]
H_cond ==
    [n \in {"accept", "If-None-Match", "User-Agent", "Pragma"} |->
        CASE n = "accept" -> "application/json"
          [] n = "If-None-Match" -> "W/1"
          [] n = "User-Agent" -> "curl/8"
          [] n = "Pragma" -> ""]

InboundHeaders == {H_none, H_auth, H_mixed, H_cond}

T_item    == <<"h","t","t","p","s",":","/","/","a","p","i",".","m","e","r","c","a","d","o","l","i","b","r","e",".","c","o","m","/","i","t","e","m","s","/","M","L","B","1","2","3">>
T_itemEnc == <<"h","t","t","p","s","%","3","A","%","2","F","%","2","F","a","p","i",".","m","e","r","c","a","d","o","l","i","b","r","e",".","c","o","m","%","2","F","i","t","e","m","s","%","2","F","M","L","B","1","2","3">>
T_search  == <<"h","t","t","p","s",":","/","/","a","p","i",".","m","e","r","c","a","d","o","l","i","b","r","e",".","c","o","m","/","s","i","t","e","s","/","M","L","B","/","s","e","a","r","c","h","?","q","=","t","v">>
T_evil    == <<"h","t","t","p",":","/","/","e","v","i","l",".","c","o","m","/","a","n","y","t","h","i","n","g">>
T_www     == <<"h","t","t","p","s",":","/","/","w","w","w",".","m","e","r","c","a","d","o","l","i","b","r","e",".","c","o","m","/","h","o","m","e">>
Q_x1      == <<"x","=","1">>
Q_u       == <<"u","=">>

\* <<raw, query_string>> of the proxy requests
ProxyTargets ==
    { <<<<>>, <<>>>>,
      <<T_item, Q_x1>>,
      <<T_itemEnc, <<>>>>,
      <<T_evil, <<>>>>,
      <<<<>>, Q_u \o T_search>>,
      <<<<>>, Q_u \o T_evil>>,
      <<<<>>, Q_x1>> }

ProxyTargetsConc == { <<T_item, Q_x1>>, <<T_evil, <<>>>> }

Req(route, method, rq, h, o) ==
    [route |-> route, method |-> method, raw |-> rq[1], query_string |-> rq[2],
     headers |-> h, origin |-> o]

Requests ==
    {Req("proxy", m, t, h, o) :
        m \in {"GET", "HEAD"}, t \in ProxyTargets, h \in InboundHeaders, o \in Origins}
    \cup {Req(r[1], r[2], <<<<>>, <<>>>>, H_auth, o) :
            r \in {<<"health", "GET">>, <<"ping", "GET">>, <<"opts", "OPTIONS">>},
            o \in Origins}

RequestsConc ==
    {Req("proxy", m, t, h, "https://app.example") :
        m \in {"GET"}, t \in ProxyTargetsConc, h \in {H_mixed, H_cond}}
    \cup {Req(r[1], r[2], <<<<>>, <<>>>>, H_auth, "") :
            r \in {<<"health", "GET">>, <<"ping", "GET">>, <<"opts", "OPTIONS">>}}

U_none == EmptyMap
U_json ==
    [n \in {"Content-Type", "Content-Length", "ETag"} |->
        CASE n = "Content-Type" -> "application/json"
          [] n = "Content-Length" -> "7"
          [] n = "ETag" -> "abc"]
U_cookie ==
    [n \in {"content-type", "Set-Cookie", "Connection", "Transfer-Encoding",
            "X-Request-Id", "Access-Control-Allow-Origin"} |->
        CASE n = "content-type" -> "text/plain"
          [] n = "Set-Cookie" -> "sid=1"
          [] n = "Connection" -> "keep-alive"
          [] n = "Transfer-Encoding" -> "chunked"
          [] n = "X-Request-Id" -> "r1"
          [] n = "Access-Control-Allow-Origin" -> "https://upstream.example"]
U_cache ==
    [n \in {"Vary", "Cache-Control", "Location", "Keep-Alive"} |->
        CASE n = "Vary" -> "Accept-Encoding"
          [] n = "Cache-Control" -> "max-age=60"
          [] n = "Location" -> "/next"
          [] n = "Keep-Alive" -> "timeout=5"]

UpstreamHeaders == {U_none, U_json, U_cookie, U_cache}

\* where an upstream answer may redirect the session to
RedirectTargets == {T_www, T_evil}

Hops == UNION {[1..n -> RedirectTargets] : n \in 0..MaxRedirects}

\* requests.Response as light_proxy reads it, after the hops the session followed
Answer(t, status, h, content, hops) ==
    [kind |-> "response", status_code |-> status, headers |-> h, content |-> content,
     url |-> IF hops = <<>> THEN t ELSE hops[Len(hops)], hops |-> hops]

\* <<status, headers, content, hops>> of the answers an upstream may give
AnswerShapes ==
    {200, 404} \X UpstreamHeaders \X {"", "payload"} \X Hops

AnswerShapesConc ==
    {200} \X {U_cookie, U_cache} \X {"payload"} \X Hops

Failure(hops) ==
    [kind |-> "raise", status_code |-> 0, headers |-> EmptyMap, content |-> "",
     url |-> <<>>, hops |-> hops]

NoUpstream ==
    [kind |-> "none", status_code |-> 0, headers |-> EmptyMap, content |-> "",
     url |-> <<>>, hops |-> <<>>]

NoRequest == Req("none", "", <<<<>>, <<>>>>, EmptyMap, "")

----------------------------------------------------------------------------
(* The server.                                                             *)

ServerInit ==
    /\ DEFAULT_OUT_HEADERS = DefaultOutHeaders
    /\ cookies = {}
    /\ pc = [w \in Workers |-> "idle"]
    /\ request = [w \in Workers |-> NoRequest]
    /\ target = [w \in Workers |-> <<>>]
    /\ qs = [w \in Workers |-> <<>>]
    /\ out_headers = [w \in Workers |-> EmptyMap]
    /\ auth_fwd = [w \in Workers |-> "unbound"]
    /\ upstream = [w \in Workers |-> NoUpstream]
    /\ resp = [w \in Workers |-> NoResponse]
    /\ calls = [w \in Workers |-> 0]
    /\ contacted = [w \in Workers |-> {}]
    /\ served = 0

Free(w) == pc[w] = "idle" /\ served < MaxServed

\* a view that answers at once: no target, no upstream call
Answered(w, rq, r) ==
    /\ pc' = [pc EXCEPT ![w] = "done"]
    /\ request' = [request EXCEPT ![w] = rq]
    /\ target' = [target EXCEPT ![w] = <<>>]
    /\ qs' = [qs EXCEPT ![w] = <<>>]
    /\ out_headers' = [out_headers EXCEPT ![w] = EmptyMap]
    /\ auth_fwd' = [auth_fwd EXCEPT ![w] = "unbound"]
    /\ upstream' = [upstream EXCEPT ![w] = NoUpstream]
    /\ resp' = [resp EXCEPT ![w] = r]
    /\ calls' = [calls EXCEPT ![w] = 0]
    /\ contacted' = [contacted EXCEPT ![w] = {}]
    /\ served' = served + 1
    /\ UNCHANGED <<FORWARD_AUTH, PROXIES, DEFAULT_OUT_HEADERS, cookies, probe, verdict>>

\* app.py:120-122
_health(w, Reqs) ==
    /\ Free(w)
    /\ \E rq \in {r \in Reqs : r.route = "health"} :
          Answered(w, rq, health_response(rq.origin))

\* app.py:124-134
_ping(w, Reqs) ==
    /\ Free(w)
    /\ \E rq \in {r \in Reqs : r.route = "ping"} :
          Answered(w, rq, ping_response(rq.origin))

\* app.py:137-141
_opts(w, Reqs) ==
    /\ Free(w)
    /\ \E rq \in {r \in Reqs : r.route = "opts"} :
          Answered(w, rq, opts_response(rq.origin))

\* app.py:146-195: light_proxy up to the call of session.request, where the
\* worker waits for the network
light_proxy(w, Reqs) ==
    /\ Free(w)
    /\ \E rq \in {r \in Reqs : r.route = "proxy"} :
          LET rt == resolve_target(rq.raw, rq.query_string)
              d  == proxy_decision(rt.target)
              th == translate_headers(DEFAULT_OUT_HEADERS, rq.headers, FORWARD_AUTH)
          IN  /\ request' = [request EXCEPT ![w] = rq]
              /\ target' = [target EXCEPT ![w] = rt.target]
              /\ qs' = [qs EXCEPT ![w] = rt.qs]
              /\ upstream' = [upstream EXCEPT ![w] = NoUpstream]
              /\ served' = served + 1
              /\ IF d = "forward"
                 THEN /\ pc' = [pc EXCEPT ![w] = "upstream"]
                      /\ out_headers' = [out_headers EXCEPT ![w] = th.out]
                      /\ auth_fwd' = [auth_fwd EXCEPT ![w] = th.auth_fwd]
                      /\ calls' = [calls EXCEPT ![w] = 1]
                      /\ contacted' = [contacted EXCEPT ![w] = {rt.target}]
                      /\ resp' = [resp EXCEPT ![w] = NoResponse]
                 ELSE /\ pc' = [pc EXCEPT ![w] = "done"]
                      /\ out_headers' = [out_headers EXCEPT ![w] = EmptyMap]
                      /\ auth_fwd' = [auth_fwd EXCEPT ![w] = "unbound"]
                      /\ calls' = [calls EXCEPT ![w] = 0]
                      /\ contacted' = [contacted EXCEPT ![w] = {}]
                      /\ resp' = [resp EXCEPT ![w] =
                                    IF d = "usage" THEN usage_response(rq.origin)
                                    ELSE rejected_response(rq.origin)]
    /\ UNCHANGED <<FORWARD_AUTH, PROXIES, DEFAULT_OUT_HEADERS, cookies, probe, verdict>>

Range(f) == {f[i] : i \in DOMAIN f}

\* app.py:187-195 returns, then app.py:204-224
upstream_responds(w, Shapes) ==
    /\ pc[w] = "upstream"
    /\ \E a \in Shapes :
          LET r == Answer(target[w], a[1], a[2], a[3], a[4])
          IN  /\ upstream' = [upstream EXCEPT ![w] = r]
              /\ contacted' = [contacted EXCEPT ![w] = @ \cup Range(r.hops)]
              /\ cookies' = store_cookies(cookies, r.headers)
              /\ resp' = [resp EXCEPT ![w] =
                            success_response(request[w], qs[w], r, PROXIES)]
    /\ pc' = [pc EXCEPT ![w] = "done"]
    /\ UNCHANGED <<FORWARD_AUTH, PROXIES, DEFAULT_OUT_HEADERS, request, target, qs,
                   out_headers, auth_fwd, calls, served, probe, verdict>>

\* app.py:187-195 raises, then app.py:196-202
upstream_raises(w) ==
    /\ pc[w] = "upstream"
    /\ \E hs \in Hops :
          /\ upstream' = [upstream EXCEPT ![w] = Failure(hs)]
          /\ contacted' = [contacted EXCEPT ![w] = @ \cup Range(hs)]
    /\ calls' = [calls EXCEPT ![w] = @ + RETRY_TOTAL]
    /\ resp' = [resp EXCEPT ![w] = failure_response(auth_fwd[w], PROXIES, request[w].origin)]
    /\ pc' = [pc EXCEPT ![w] = "done"]
    /\ UNCHANGED <<FORWARD_AUTH, PROXIES, DEFAULT_OUT_HEADERS, cookies, request, target,
                   qs, out_headers, auth_fwd, served, probe, verdict>>

\* The response leaves for the caller; the request's context is torn down and
\* the worker is free again.
send_response(w) ==
    /\ pc[w] = "done"
    /\ pc' = [pc EXCEPT ![w] = "idle"]
    /\ request' = [request EXCEPT ![w] = NoRequest]
    /\ target' = [target EXCEPT ![w] = <<>>]
    /\ qs' = [qs EXCEPT ![w] = <<>>]
    /\ out_headers' = [out_headers EXCEPT ![w] = EmptyMap]
    /\ auth_fwd' = [auth_fwd EXCEPT ![w] = "unbound"]
    /\ upstream' = [upstream EXCEPT ![w] = NoUpstream]
    /\ resp' = [resp EXCEPT ![w] = NoResponse]
    /\ calls' = [calls EXCEPT ![w] = 0]
    /\ contacted' = [contacted EXCEPT ![w] = {}]
    /\ UNCHANGED <<FORWARD_AUTH, PROXIES, DEFAULT_OUT_HEADERS, cookies, served, probe,
                   verdict>>

\* One worker, one request at a time.
Init ==
    /\ FORWARD_AUTH \in BOOLEAN
    /\ PROXIES \in BOOLEAN
    /\ ServerInit
    /\ probe = <<>>
    /\ verdict = <<>>

Next ==
    \/ _health(1, Requests)
    \/ _ping(1, Requests)
    \/ _opts(1, Requests)
    \/ light_proxy(1, Requests)
    \/ upstream_responds(1, AnswerShapes)
    \/ upstream_raises(1)
    \/ send_response(1)

Spec == Init /\ [][Next]_vars

\* Two workers of the hosting server, interleaved at the network waits.
NextConc ==
    \E w \in Workers :
        \/ _health(w, RequestsConc)
        \/ _ping(w, RequestsConc)
        \/ _opts(w, RequestsConc)
        \/ light_proxy(w, RequestsConc)
        \/ upstream_responds(w, AnswerShapesConc)
        \/ upstream_raises(w)
        \/ send_response(w)

SpecConc == Init /\ [][NextConc]_vars

----------------------------------------------------------------------------
(* is_allowed on its own: URLs put together from a scheme, an authority    *)
(* and a rest, handed to is_allowed as text.                               *)

RECURSIVE Concat(_)
Concat(ss) == IF ss = <<>> THEN <<>> ELSE Head(ss) \o Concat(Tail(ss))

ProbeSchemes == { <<"h","t","t","p","s">>, <<"h","t","t","p">>, <<"H","T","T","P">>, <<"f","t","p">>, <<>> }
ProbeUserinfo == { <<>>, <<"a","p","i",".","m","e","r","c","a","d","o","l","i","b","r","e",".","c","o","m","@">> }
PrefixAtoms == { <<"a","p","i",".">>, <<"w","w","w",".">>, <<"n","o","t">>, <<"e","v","i","l">>, <<".">> }
ProbePrefixes == UNION {[1..n -> PrefixAtoms] : n \in 0..MaxPrefix}
ProbeCores ==
    { <<"m","e","r","c","a","d","o","l","i","b","r","e",".","c","o","m">>, <<"m","e","r","c","a","d","o","l","i","v","r","e",".","c","o","m",".","b","r">>, <<"M","e","r","c","a","d","o","L","i","b","r","e",".","C","O","M">>,
      <<"e","v","i","l",".","c","o","m">>, <<"[",":",":","1">>, <<>> }
ProbeTails == { <<>>, <<".","e","v","i","l",".","c","o","m">>, <<".">> }
ProbePorts == { <<>>, <<":","8","0","8","0">> }
ProbeRests == { <<>>, <<"/","i","t","e","m","s","/","M","L","B","1","2","3">>, <<"?","n","e","x","t","=",".","m","e","r","c","a","d","o","l","i","b","r","e",".","c","o","m">> }

AllowedProbes ==
    [scheme : ProbeSchemes, userinfo : ProbeUserinfo, prefix : ProbePrefixes,
     core : ProbeCores, tail : ProbeTails, port : ProbePorts, rest : ProbeRests]

ProbeHost(p) == Concat(p.prefix) \o p.core \o p.tail

ProbeUrl(p) ==
    (IF p.scheme = <<>> THEN <<>> ELSE p.scheme \o <<":">>)
    \o <<"/", "/">> \o p.userinfo \o ProbeHost(p) \o p.port \o p.rest

InitAllowed ==
    /\ FORWARD_AUTH = FALSE
    /\ PROXIES = FALSE
    /\ ServerInit
    /\ probe \in AllowedProbes
    /\ verdict = [done |-> FALSE, allowed |-> FALSE]

check_allowed ==
    /\ ~verdict.done
    /\ verdict' = [done |-> TRUE, allowed |-> is_allowed(ProbeUrl(probe))]
    /\ UNCHANGED <<FORWARD_AUTH, PROXIES, DEFAULT_OUT_HEADERS, cookies, pc, request,
                   target, qs, out_headers, auth_fwd, upstream, resp, calls,
                   contacted, served, probe>>

NextAllowed == check_allowed

SpecAllowed == InitAllowed /\ [][NextAllowed]_vars

----------------------------------------------------------------------------
(* Target resolution on its own: a target a caller means, written into the *)
(* path or into the parameter u the way a caller writes it.                *)

\* the caller's percent-encoding of the reserved characters
Quote(s) ==
    Concat([i \in 1..Len(s) |->
        CASE s[i] = ":" -> <<"%","3","A">>
          [] s[i] = "/" -> <<"%","2","F">>
          [] s[i] = "?" -> <<"%","3","F">>
          [] s[i] = "=" -> <<"%","3","D">>
          [] OTHER -> <<s[i]>>])

Blanks(n, enc) ==
    Concat([i \in 1..n |-> IF enc = "percent" THEN <<"%","2","0">> ELSE <<"+">>])

MeantTargets == { T_item, T_search, T_evil, <<>> }
ProbeQueries == { <<>>, Q_x1, <<"x","=","1","&","y","=","2">> }

ResolveProbes ==
    [style : {"path", "query"}, meant : MeantTargets, enc : {"plain", "percent"},
     query : ProbeQueries, lpad : 0..MaxPad, rpad : 0..MaxPad]

ProbeWritten(p) == IF p.enc = "percent" THEN Quote(p.meant) ELSE p.meant

\* the path remainder of the probe's request
ProbeRaw(p) == IF p.style = "path" THEN ProbeWritten(p) ELSE <<>>

\* the query string of the probe's request
ProbeQueryString(p) ==
    IF p.style = "path" THEN p.query
    ELSE Q_u \o Blanks(p.lpad, p.enc) \o ProbeWritten(p) \o Blanks(p.rpad, p.enc)
         \o (IF p.query = <<>> THEN <<>> ELSE <<"&">> \o p.query)

InitResolve ==
    /\ FORWARD_AUTH = FALSE
    /\ PROXIES = FALSE
    /\ ServerInit
    /\ probe \in {p \in ResolveProbes :
                    p.style = "path" => (p.lpad = 0 /\ p.rpad = 0 /\ p.meant # <<>>)}
    /\ verdict = [done |-> FALSE, target |-> <<>>]

check_resolve ==
    /\ ~verdict.done
    /\ verdict' = [done |-> TRUE,
                   target |-> resolve_target(ProbeRaw(probe), ProbeQueryString(probe)).target]
    /\ UNCHANGED <<FORWARD_AUTH, PROXIES, DEFAULT_OUT_HEADERS, cookies, pc, request,
                   target, qs, out_headers, auth_fwd, upstream, resp, calls,
                   contacted, served, probe>>

NextResolve == check_resolve

SpecResolve == InitResolve /\ [][NextResolve]_vars

----------------------------------------------------------------------------
(* Properties.                                                             *)

ACAO == "access-control-allow-origin"
ACAC == "access-control-allow-credentials"

Forwarded(w) == pc[w] \in {"upstream", "done"} /\ request[w].route = "proxy" /\ calls[w] >= 1

\* C1: a transport failure of the upstream call of an allowed GET or HEAD
\* request always ends in 502 with the JSON error "upstream_error" and the
\* CORS headers, under every configuration and with or without an inbound
\* Authorization header; never in an unhandled exception.
C1_TransportFailureIs502 ==
    \A w \in Workers :
        (pc[w] = "done" /\ upstream[w].kind = "raise") =>
            /\ resp[w].status = 502
            /\ resp[w].error = "upstream_error"
            /\ ACAO \in DOMAIN resp[w].headers

\* C2: light_proxy makes exactly one upstream attempt when the resolved target
\* is non-empty and allowed, also when the attempt fails, and none otherwise:
\* an empty target ends in the 200 usage answer and a disallowed one in the
\* 400 rejection, with no upstream contact.
C2_OneCallIffAllowed ==
    \A w \in Workers :
        (pc[w] \in {"upstream", "done"} /\ request[w].route = "proxy") =>
            LET admitted == target[w] # <<>> /\ is_allowed(target[w])
            IN  /\ calls[w] = IF admitted THEN 1 ELSE 0
                /\ admitted => contacted[w] # {}
                /\ target[w] = <<>> =>
                      /\ pc[w] = "done" /\ resp[w].status = 200
                      /\ upstream[w].kind = "none" /\ contacted[w] = {}
                /\ (target[w] # <<>> /\ ~admitted) =>
                      /\ pc[w] = "done" /\ resp[w].status = 400
                      /\ upstream[w].kind = "none" /\ contacted[w] = {}

\* C2 witness: an allowed request whose only attempt failed, and was not retried
C2_Witness ==
    /\ pc[1] = "done" /\ upstream[1].kind = "raise" /\ calls[1] = 1
    /\ target[1] = T_item \o <<"?">> \o Q_x1

\* the claim's own reading of "h ends with suf"
C3_HasSuffix(h, suf) == \E pre \in 0..Len(h) : h = SubSeq(h, 1, pre) \o suf

C3_Admits(p) ==
    LET s == Lower(p.scheme)
        h == Lower(ProbeHost(p))
    IN  /\ p.core # <<"[",":",":","1">>
        /\ s \in { <<"h","t","t","p">>, <<"h","t","t","p","s">> }
        /\ \/ h = <<"a","p","i",".","m","e","r","c","a","d","o","l","i","b","r","e",".","c","o","m">>
           \/ C3_HasSuffix(h, <<".","m","e","r","c","a","d","o","l","i","v","r","e",".","c","o","m",".","b","r">>)
           \/ C3_HasSuffix(h, <<".","m","e","r","c","a","d","o","l","i","b","r","e",".","c","o","m">>)

\* C3: is_allowed admits a URL of scheme s and host h exactly when s is http or
\* https and h, lowercased, is api.mercadolibre.com or ends with
\* .mercadolivre.com.br or .mercadolibre.com; every other scheme and every
\* URL that does not parse is denied; notmercadolibre.com,
\* evilmercadolibre.com and api.mercadolibre.com.evil.com are denied.
C3_AllowlistExact ==
    verdict.done =>
        /\ verdict.allowed = C3_Admits(probe)
        /\ Lower(ProbeHost(probe)) \in { <<"n","o","t","m","e","r","c","a","d","o","l","i","b","r","e",".","c","o","m">>, <<"e","v","i","l","m","e","r","c","a","d","o","l","i","b","r","e",".","c","o","m">>,
                                         <<"a","p","i",".","m","e","r","c","a","d","o","l","i","b","r","e",".","c","o","m",".","e","v","i","l",".","c","o","m">> }
              => ~verdict.allowed

\* C3 witness: https://api.mercadolibre.com.evil.com was probed and denied
C3_Witness ==
    /\ verdict.done /\ ~verdict.allowed
    /\ probe.scheme = <<"h","t","t","p","s">> /\ probe.userinfo = <<>>
    /\ ProbeHost(probe) = <<"a","p","i",".","m","e","r","c","a","d","o","l","i","b","r","e",".","c","o","m",".","e","v","i","l",".","c","o","m">>

\* C4: the header names of the outbound call are among the static defaults and
\* FORWARD_INBOUND, plus Authorization only when the flag is on; with the flag
\* off Authorization never goes out, and Cookie, custom and hop-by-hop inbound
\* headers never do (Connection goes out with the static value only).
C4_OutboundNames ==
    \A w \in Workers :
        Forwarded(w) =>
            /\ DOMAIN out_headers[w] \subseteq
                  {"User-Agent", "Accept", "Accept-Language", "Connection"}
                  \cup FORWARD_INBOUND
                  \cup (IF FORWARD_AUTH THEN {"Authorization"} ELSE {})
            /\ ~FORWARD_AUTH =>
                  \A n \in DOMAIN out_headers[w] : lower_name(n) # "authorization"
            /\ \A n \in DOMAIN out_headers[w] :
                  lower_name(n) \notin {"cookie", "x-custom"}
            /\ out_headers[w]["Connection"] = "keep-alive"

\* C4 witness: the flag is off, the caller sent Authorization and Cookie, and
\* the call went out
C4_Witness ==
    /\ ~FORWARD_AUTH /\ Forwarded(1)
    /\ headers_get(request[1].headers, "Authorization") # ""
    /\ headers_get(request[1].headers, "Cookie") # ""

\* the target the claim expects for a probe
C5_Expected(p) ==
    IF p.style = "path"
    THEN p.meant \o (IF p.query = <<>> THEN <<>>
                     ELSE (IF \E i \in 1..Len(p.meant) : p.meant[i] = "?"
                           THEN <<"&">> ELSE <<"?">>) \o p.query)
    ELSE p.meant

\* C5: a non-empty path remainder resolves to its URL-decoding, followed, when
\* the request has a query string, by "?" (no "?" in the decoded target) or
\* "&" (otherwise) and that query string; an empty path remainder resolves to
\* the trimmed value of the parameter u, with nothing appended.
C5_TargetResolution ==
    verdict.done =>
        /\ verdict.target = C5_Expected(probe)
        /\ (ProbeRaw(probe) = T_itemEnc /\ ProbeQueryString(probe) = Q_x1)
              => verdict.target = <<"h","t","t","p","s",":","/","/","a","p","i",".","m","e","r","c","a","d","o","l","i","b","r","e",".","c","o","m","/","i","t","e","m","s","/","M","L","B","1","2","3","?","x","=","1">>
        /\ (ProbeRaw(probe) = <<>> /\ ProbeQueryString(probe) = Q_u \o T_search)
              => verdict.target = T_search

\* C5 witness: /https%3A%2F%2Fapi.mercadolibre.com%2Fitems%2FMLB123?x=1 resolved
C5_Witness ==
    /\ verdict.done
    /\ ProbeRaw(probe) = T_itemEnc /\ ProbeQueryString(probe) = Q_x1
    /\ verdict.target = <<"h","t","t","p","s",":","/","/","a","p","i",".","m","e","r","c","a","d","o","l","i","b","r","e",".","c","o","m","/","i","t","e","m","s","/","M","L","B","1","2","3","?","x","=","1">>

\* C6: every response of every route and outcome carries
\* Access-Control-Allow-Origin, equal to the inbound Origin when there is one
\* and "*" otherwise, and Access-Control-Allow-Credentials, "true" exactly
\* when the Origin was echoed.
C6_EveryResponseHasCors ==
    \A w \in Workers :
        pc[w] = "done" =>
            LET h == resp[w].headers
                o == request[w].origin
            IN  /\ ACAO \in DOMAIN h
                /\ h[ACAO] = IF o # "" THEN o ELSE "*"
                /\ ACAC \in DOMAIN h
                /\ (h[ACAC] = "true") <=> (o # "")

\* C7: on the success path the status sent is the upstream status, and the
\* body is the upstream body for GET and empty for HEAD.
C7_StatusAndBody ==
    \A w \in Workers :
        (pc[w] = "done" /\ upstream[w].kind = "response") =>
            /\ resp[w].status = upstream[w].status_code
            /\ request[w].method = "GET" => resp[w].body = upstream[w].content
            /\ request[w].method = "HEAD" => resp[w].body = ""

\* C7 witness: a HEAD request whose upstream answered 404 with a body
C7_Witness ==
    /\ pc[1] = "done" /\ upstream[1].kind = "response"
    /\ request[1].method = "HEAD" /\ upstream[1].content = "payload"
    /\ upstream[1].status_code = 404 /\ resp[1].status = 404 /\ resp[1].body = ""

\* C8: on the success path an upstream header reaches the caller with its
\* upstream value if its lowercased name is on the relay list and is not
\* hop-by-hop, and no other upstream header reaches the caller.
C8_RelayedHeaders ==
    \A w \in Workers :
        (pc[w] = "done" /\ upstream[w].kind = "response") =>
            \A k \in DOMAIN upstream[w].headers :
                LET lk == lower_name(k)
                    reaches == /\ lk \in DOMAIN resp[w].headers
                               /\ resp[w].headers[lk] = upstream[w].headers[k]
                IN  reaches <=> (lk \in RELAYED /\ lk \notin HOP_BY_HOP)

\* what the outbound headers of a request are, from that request alone
C9_OwnHeaders(rq, flag) ==
    LET own(k) == headers_get(rq.headers, k)
        sent == {"User-Agent", "Accept", "Accept-Language", "Connection"}
                \cup {k \in FORWARD_INBOUND : own(k) # ""}
                \cup {k \in {"Authorization"} : flag /\ own(k) # ""}
    IN  [k \in sent |-> IF own(k) # "" /\ k # "Connection" THEN own(k)
                        ELSE DefaultOutHeaders[k]]

\* C9: requests are isolated: no request changes the shared default headers
\* or stores a cookie in the session's jar, whatever upstream sets; the
\* outbound headers of a request come from its own inbound headers and the
\* static configuration, and its response from its own origin and its own
\* upstream result, whatever the other worker is doing or has failed at.
C9_Isolation ==
    /\ DEFAULT_OUT_HEADERS = DefaultOutHeaders
    /\ cookies = {}
    /\ \A w \in Workers :
          /\ Forwarded(w) => out_headers[w] = C9_OwnHeaders(request[w], FORWARD_AUTH)
          /\ (pc[w] = "done" /\ ACAO \in DOMAIN resp[w].headers) =>
                resp[w].headers[ACAO] \in {request[w].origin, "*"}
          /\ (pc[w] = "done" /\ upstream[w].kind = "response") =>
                /\ resp[w].status = upstream[w].status_code
                /\ resp[w].x_proxy_final_url = Present(upstream[w].url)

\* C9 witness: one worker's request was rejected with 400 while the other's
\* was relayed from an upstream that set a cookie
C9_Witness ==
    \E v, w \in Workers :
        /\ v # w
        /\ pc[v] = "done" /\ resp[v].status = 400
        /\ pc[w] = "done" /\ upstream[w].kind = "response"
        /\ headers_get(upstream[w].headers, "Set-Cookie") # ""
        /\ headers_get(request[w].headers, "Range") # ""

\* C10: every URL the session requests for a request, redirects included, is
\* allowlisted, and so is the final URL reported in X-Proxy-Final-Url.
C10_OnlyAllowlistedHosts ==
    \A w \in Workers :
        /\ \A u \in contacted[w] : is_allowed(u)
        /\ resp[w].x_proxy_final_url.present => is_allowed(resp[w].x_proxy_final_url.value)

====
